---- MODULE Spec2Model ----
(***************************************************************************)
(* A model of the tudelft-nes-ppu library: the PPU register file, the data *)
(* port with its mirroring and palette folding, the scanline driver with   *)
(* sprite evaluation, and the pacing loop that drives a caller-supplied    *)
(* CPU and the PPU at a ratio of one CPU tick to three PPU dots.           *)
(***************************************************************************)
EXTENDS Integers, Sequences, FiniteSets, TLC

(***************************************************************************)
(* Bounds of the model.                                                    *)
(***************************************************************************)
\* register operations the CPU performs in one explored run
MaxOps == 2
\* PPU update steps explored once the CPU has started
MaxSteps == 4
\* dots the PPU runs undisturbed: a frame (262 * 341) and the start of the next
MaxDots == 89700

(***************************************************************************)
(* Program constants.                                                      *)
(***************************************************************************)
\* dots per scanline: line_progress wraps when it exceeds 340
DotsPerLine == 341
\* the last scanline (pre-render line); scanline wraps to 0 beyond it
LastScanline == 261
\* the scanline at which vblank starts
VblankLine == 241
\* the visible area
WIDTH == 256
HEIGHT == 240

Mirrorings ==
    {"Horizontal", "Vertical", "FourScreen", "SingleScreenLower", "SingleScreenUpper"}

PpuRegister ==
    {"Controller", "Mask", "Status", "OamAddress", "OamData", "Scroll", "Address", "Data"}

(***************************************************************************)
(* Arrays.  vram ([u8; 4096]) and oam ([u8; 256]) start all zero and are   *)
(* kept as the function of their non-zero bytes, so that one array has one *)
(* representation; every other index reads as 0.                           *)
(***************************************************************************)
ArrGet(a, i) == IF i \in DOMAIN a THEN a[i] ELSE 0

ArrSet(a, i, v) ==
    IF v = 0
    THEN [j \in (DOMAIN a) \ {i} |-> a[j]]
    ELSE [j \in (DOMAIN a) \cup {i} |-> IF j = i THEN v ELSE a[j]]

\* bit k of byte v
Bit(v, k) == (v \div (2 ^ k)) % 2 = 1

(***************************************************************************)
(* Registers (ppu/registers.rs).                                           *)
(***************************************************************************)
ControllerWrite(c, value) ==
    [c EXCEPT
        !.vram_increment = IF Bit(value, 2) THEN 32 ELSE 1,
        !.sprite_pattern_address = IF Bit(value, 3) THEN \H1000 ELSE 0,
        !.background_pattern_address = IF Bit(value, 4) THEN \H1000 ELSE 0,
        !.sprite_size = IF Bit(value, 5) THEN <<8, 16>> ELSE <<8, 8>>,
        !.master_slave_select = Bit(value, 6),
        !.should_generate_vblank_nmi = Bit(value, 7),
        !.binary_value = value]

ControllerDefault ==
    ControllerWrite(
        [nametable_address |-> \H2000,
         vram_increment |-> 0,
         sprite_pattern_address |-> 0,
         background_pattern_address |-> 0,
         sprite_size |-> <<0, 0>>,
         master_slave_select |-> FALSE,
         should_generate_vblank_nmi |-> FALSE,
         binary_value |-> 0], 0)

MaskWrite(value) ==
    [greyscale |-> Bit(value, 0),
     show_bg_left |-> Bit(value, 1),
     show_sprites_left |-> Bit(value, 2),
     show_background |-> Bit(value, 3),
     show_sprites |-> Bit(value, 4),
     emph_red |-> Bit(value, 5),
     emph_green |-> Bit(value, 6),
     emph_blue |-> Bit(value, 7),
     binary_value |-> value]

MaskDefault == MaskWrite(0)

StatusDefault ==
    [sprite_overflow |-> FALSE, sprite_zero_hit |-> FALSE, vblank_started |-> FALSE]

\* StatusRegister::read: the value, and the register after the read
StatusReadValue(s) ==
    (IF s.sprite_overflow THEN 32 ELSE 0)
    + (IF s.sprite_zero_hit THEN 64 ELSE 0)
    + (IF s.vblank_started THEN 128 ELSE 0)

\* (a read that leaves vblank_started as it was)
StatusRead_KeepVblank(s) == [value |-> StatusReadValue(s), status |-> s]

StatusRead(s) ==
    [value |-> StatusReadValue(s), status |-> [s EXCEPT !.vblank_started = FALSE]]

\* (a write that keeps all 16 bits of the address)
AddrWrite_NoFold(a, value, scroll_addr_latch) ==
    [addr |-> IF scroll_addr_latch
              THEN (a.addr % 256) + value * 256
              ELSE (a.addr \div 256) * 256 + value]

\* AddrRegister::write
AddrWrite(a, value, scroll_addr_latch) ==
    LET w == IF scroll_addr_latch
             THEN (a.addr % 256) + value * 256
             ELSE (a.addr \div 256) * 256 + value
    IN  [addr |-> IF w > \H3fff THEN w % \H4000 ELSE w]

\* OamAddrRegister::write
OamAddrWrite(value) == [addr |-> value]

\* ScrollRegister::write
ScrollWrite(s, value, scroll_addr_latch) ==
    IF scroll_addr_latch THEN [s EXCEPT !.y = value] ELSE [s EXCEPT !.x = value]

ButtonsDefault ==
    [a |-> FALSE, b |-> FALSE, up |-> FALSE, down |-> FALSE,
     left |-> FALSE, right |-> FALSE, select |-> FALSE, start |-> FALSE]

(***************************************************************************)
(* The PPU (ppu/mod.rs).  panicked is the process state after a panic!.    *)
(***************************************************************************)
PpuNew(mirroring) ==
    [scanline |-> 0,
     line_progress |-> 0,
     controller_register |-> ControllerDefault,
     mask_register |-> MaskDefault,
     status_register |-> StatusDefault,
     addr |-> [addr |-> 0],
     scroll |-> [x |-> 0, y |-> 0],
     oam_addr |-> [addr |-> 0],
     scroll_addr_latch |-> TRUE,
     palette_table |-> [i \in 0..31 |-> 0],
     vram |-> << >>,
     oam |-> << >>,
     secondary_oam |-> [i \in 0..31 |-> \Hff],
     bus |-> 0,
     data_buffer |-> 0,
     mirroring |-> mirroring,
     buttons |-> ButtonsDefault,
     panicked |-> FALSE]

\* the "invalid address for vram mirroring" panic of mirror_address
InvalidMirror == -1

\* (a mapping that gives horizontal mirroring the vertical arrangement)
MirrorAddress_Swapped(mirroring, addr0) ==
    LET addr == IF addr0 > \H2fff THEN addr0 - \H1000
                ELSE IF addr0 < \H2000 THEN addr0 + \H1000
                ELSE addr0
    IN  CASE mirroring \in {"Horizontal", "Vertical"} ->
               (CASE addr \in \H2000..\H27ff -> addr
                  [] addr \in \H2800..\H2fff -> addr - \H800
                  [] OTHER -> InvalidMirror)
          [] mirroring = "FourScreen" -> addr
          [] mirroring = "SingleScreenLower" -> \H2000 + (addr % \H400)
          [] mirroring = "SingleScreenUpper" -> \H2400 + (addr % \H400)

\* (a mapping in which every bank has storage of its own)
MirrorAddress_Unmirrored(mirroring, addr0) ==
    IF addr0 > \H2fff THEN addr0 - \H1000
    ELSE IF addr0 < \H2000 THEN addr0 + \H1000
    ELSE addr0

\* mirror_address, after the folding of the address into 0x2000-0x2fff
MirrorAddress(mirroring, addr0) ==
    LET addr == IF addr0 > \H2fff THEN addr0 - \H1000
                ELSE IF addr0 < \H2000 THEN addr0 + \H1000
                ELSE addr0
    IN  CASE mirroring = "Horizontal" ->
               (CASE addr \in \H2000..\H23ff -> addr
                  [] addr \in \H2400..\H27ff -> addr - \H400
                  [] addr \in \H2800..\H2bff -> addr - \H400
                  [] addr \in \H2c00..\H2fff -> addr - \H800
                  [] OTHER -> InvalidMirror)
          [] mirroring = "Vertical" ->
               (CASE addr \in \H2000..\H27ff -> addr
                  [] addr \in \H2800..\H2fff -> addr - \H800
                  [] OTHER -> InvalidMirror)
          [] mirroring = "FourScreen" -> addr
          [] mirroring = "SingleScreenLower" ->
               (CASE addr \in \H2000..\H23ff -> addr
                  [] addr \in \H2400..\H27ff -> addr - \H400
                  [] addr \in \H2800..\H2bff -> addr - \H800
                  [] addr \in \H2c00..\H2fff -> addr - \Hc00
                  [] OTHER -> InvalidMirror)
          [] mirroring = "SingleScreenUpper" ->
               (CASE addr \in \H2000..\H23ff -> addr + \H400
                  [] addr \in \H2400..\H27ff -> addr
                  [] addr \in \H2800..\H2bff -> addr - \H400
                  [] addr \in \H2c00..\H2fff -> addr - \H800
                  [] OTHER -> InvalidMirror)

\* self.vram[self.mirror_address(a) as usize - 0x2000] = value
VramStore(p, a, value) ==
    LET m == MirrorAddress(p.mirroring, a)
    IN  IF m = InvalidMirror \/ m - \H2000 \notin 0..4095
        THEN [p EXCEPT !.panicked = TRUE]
        ELSE [p EXCEPT !.vram = ArrSet(@, m - \H2000, value)]

\* self.vram[self.mirror_address(a) as usize - 0x2000]
VramLoad(p, a) ==
    LET m == MirrorAddress(p.mirroring, a)
    IN  IF m = InvalidMirror \/ m - \H2000 \notin 0..4095
        THEN InvalidMirror
        ELSE ArrGet(p.vram, m - \H2000)

PaletteMirrors == {\H3f10, \H3f14, \H3f18, \H3f1c}

\* (a write that knows no mirrors of the backdrop colours)
PaletteWriteIndex_NoMirrors(a) == (a - \H3f00) % 32

\* the index of palette_table a Data write at address a stores to
PaletteWriteIndex(a) ==
    IF a \in PaletteMirrors THEN a - \H3f10 ELSE (a - \H3f00) % 32

\* the index of palette_table a Data read at address a loads from
PaletteReadIndex(a) ==
    IF a \in PaletteMirrors THEN a - \H3f10 ELSE (a - \H3f00) % 32

\* (an increment that is not folded)
AdvanceAddr_NoFold(p) ==
    [p EXCEPT !.addr.addr = @ + p.controller_register.vram_increment]

\* self.addr.addr += vram_increment; folded into 0x0000-0x3fff
AdvanceAddr(p) ==
    LET w == p.addr.addr + p.controller_register.vram_increment
    IN  [p EXCEPT !.addr.addr = IF w > \H3fff THEN w % \H4000 ELSE w]

\* the Data arm of write_ppu_register
DataWrite(p, value) ==
    LET a == p.addr.addr
        q == CASE a \in 0..\H1fff -> p
               [] a \in \H2000..\H2fff -> VramStore(p, a, value)
               [] a \in \H3000..\H3eff -> VramStore(p, a - \H1000, value)
               [] a \in \H3f00..\H3fff ->
                    [p EXCEPT !.palette_table[PaletteWriteIndex(a)] = value]
               [] OTHER -> p
    IN  IF q.panicked THEN q ELSE AdvanceAddr(q)

\* (a Scroll write that hands the latch on as it is)
WriteScroll_Straight(p, value) ==
    [p EXCEPT !.scroll = ScrollWrite(@, value, p.scroll_addr_latch),
              !.scroll_addr_latch = ~@]

\* the Scroll arm of write_ppu_register
WriteScroll(p, value) ==
    [p EXCEPT !.scroll = ScrollWrite(@, value, ~p.scroll_addr_latch),
              !.scroll_addr_latch = ~@]

\* (an Address write that leaves the latch after its second byte only)
WriteAddress_LatchSticks(p, value) ==
    [p EXCEPT !.addr = AddrWrite(@, value, p.scroll_addr_latch),
              !.scroll_addr_latch = TRUE]

\* the Address arm of write_ppu_register
WriteAddress(p, value) ==
    [p EXCEPT !.addr = AddrWrite(@, value, p.scroll_addr_latch),
              !.scroll_addr_latch = ~@]

WritePpuRegister(p0, register, value) ==
    LET p == [p0 EXCEPT !.bus = value]
    IN  CASE register = "Controller" ->
               [p EXCEPT !.controller_register = ControllerWrite(@, value)]
          [] register = "Mask" -> [p EXCEPT !.mask_register = MaskWrite(value)]
          [] register = "Status" -> p
          [] register = "OamAddress" -> [p EXCEPT !.oam_addr = OamAddrWrite(value)]
          [] register = "OamData" ->
               [p EXCEPT !.oam = ArrSet(@, p.oam_addr.addr, value),
                         !.oam_addr.addr = (@ + 1) % 256]
          [] register = "Scroll" -> WriteScroll(p, value)
          [] register = "Address" -> WriteAddress(p, value)
          [] register = "Data" -> DataWrite(p, value)

\* cpu.ppu_read_chr_rom(a): the cartridge images of the model
ChrImages == {"blank", "solid", "stripes"}

PpuReadChrRom(chr, a) ==
    CASE chr = "blank" -> 0
      [] chr = "solid" -> \Hff
      [] chr = "stripes" -> IF (a \div 8) % 2 = 0 THEN \Haa ELSE 0

\* (a Data read that buffers the palette as it buffers the rest)
DataRead_PaletteBuffered(p, chr) ==
    LET a == p.addr.addr
        q == CASE a \in 0..\H1fff ->
                    [p EXCEPT !.bus = p.data_buffer,
                              !.data_buffer = PpuReadChrRom(chr, a)]
               [] a \in \H2000..\H2fff ->
                    [p EXCEPT !.bus = p.data_buffer, !.data_buffer = VramLoad(p, a)]
               [] a \in \H3000..\H3eff ->
                    [p EXCEPT !.bus = p.data_buffer,
                              !.data_buffer = VramLoad(p, a - \H1000)]
               [] OTHER ->
                    [p EXCEPT !.bus = p.data_buffer,
                              !.data_buffer = p.palette_table[PaletteReadIndex(a)]]
    IN  AdvanceAddr(q)

\* (a Data read that returns the byte at the address at once)
DataRead_Unbuffered(p, chr) ==
    LET a == p.addr.addr
        q == CASE a \in 0..\H1fff -> [p EXCEPT !.bus = PpuReadChrRom(chr, a)]
               [] a \in \H2000..\H2fff -> [p EXCEPT !.bus = VramLoad(p, a)]
               [] a \in \H3000..\H3eff -> [p EXCEPT !.bus = VramLoad(p, a - \H1000)]
               [] OTHER -> [p EXCEPT !.bus = p.palette_table[PaletteReadIndex(a)]]
    IN  AdvanceAddr(q)

\* the Data arm of read_ppu_register
DataRead(p, chr) ==
    LET a == p.addr.addr
        q == CASE a \in 0..\H1fff ->
                    [p EXCEPT !.bus = p.data_buffer,
                              !.data_buffer = PpuReadChrRom(chr, a)]
               [] a \in \H2000..\H2fff ->
                    IF VramLoad(p, a) = InvalidMirror
                    THEN [p EXCEPT !.panicked = TRUE]
                    ELSE [p EXCEPT !.bus = p.data_buffer,
                                   !.data_buffer = VramLoad(p, a)]
               [] a \in \H3000..\H3eff ->
                    IF VramLoad(p, a - \H1000) = InvalidMirror
                    THEN [p EXCEPT !.panicked = TRUE]
                    ELSE [p EXCEPT !.bus = p.data_buffer,
                                   !.data_buffer = VramLoad(p, a - \H1000)]
               [] a \in \H3f00..\H3fff ->
                    [p EXCEPT !.bus = p.palette_table[PaletteReadIndex(a)]]
               [] OTHER -> [p EXCEPT !.panicked = TRUE]
    IN  IF q.panicked THEN q ELSE AdvanceAddr(q)

\* read_ppu_register: the PPU after the read; the value returned is its bus
ReadPpuRegister(p, register, chr) ==
    CASE register = "Status" ->
           LET r == StatusRead(p.status_register)
           IN  [p EXCEPT !.status_register = r.status,
                         !.bus = (p.bus % 32) + r.value,
                         !.scroll_addr_latch = TRUE]
      [] register \in {"Scroll", "Address"} -> [p EXCEPT !.scroll_addr_latch = TRUE]
      [] register = "Data" -> DataRead(p, chr)
      [] OTHER -> p

\* an array given by all its bytes, as the function of its non-zero bytes
ArrOf(bytes) == [i \in {j \in DOMAIN bytes : bytes[j] # 0} |-> bytes[i]]

\* write_oam_dma
WriteOamDma(p, data_to_write) == [p EXCEPT !.oam = ArrOf(data_to_write)]

(***************************************************************************)
(* The scanline driver and the sprite renderer (ppu/mod.rs).               *)
(***************************************************************************)
\* the byte of oam at index i
OamByte(p, i) == ArrGet(p.oam, i)

\* sprite.2 & 0b1110_0011, with bit 2 set for the first tuple of the scan
SecondaryAttr(byte2, index) ==
    (byte2 \div 32) * 32 + (byte2 % 4) + (IF index = 0 THEN 4 ELSE 0)

\* (an evaluation that stops at the ninth sprite without recording it)
RECURSIVE SpriteEvaluation_Silent(_, _, _)
SpriteEvaluation_Silent(p, index, sprite_index) ==
    IF index >= (256 - p.oam_addr.addr) \div 4
    THEN p
    ELSE LET base == p.oam_addr.addr + 4 * index
             s0 == ArrGet(p.oam, base)
         IN  IF p.scanline >= s0
                /\ p.scanline < s0 + p.controller_register.sprite_size[2]
             THEN IF sprite_index = 8
                  THEN p
                  ELSE SpriteEvaluation_Silent(
                         [p EXCEPT !.secondary_oam =
                            [@ EXCEPT ![sprite_index * 4] = s0,
                                      ![sprite_index * 4 + 1] = ArrGet(p.oam, base + 1),
                                      ![sprite_index * 4 + 2] =
                                          SecondaryAttr(ArrGet(p.oam, base + 2), index),
                                      ![sprite_index * 4 + 3] = ArrGet(p.oam, base + 3)]],
                         index + 1, sprite_index + 1)
             ELSE SpriteEvaluation_Silent(p, index + 1, sprite_index)

\* the loop of update_scanline over the 4-byte tuples of oam after
\* skip(oam_addr), from tuple `index` on, sprite_index entries copied so far
RECURSIVE SpriteEvaluation(_, _, _)
SpriteEvaluation(p, index, sprite_index) ==
    IF index >= (256 - p.oam_addr.addr) \div 4
    THEN p
    ELSE LET base == p.oam_addr.addr + 4 * index
             s0 == OamByte(p, base)
             s1 == OamByte(p, base + 1)
             s2 == OamByte(p, base + 2)
             s3 == OamByte(p, base + 3)
         IN  IF p.scanline >= s0
                /\ p.scanline < s0 + p.controller_register.sprite_size[2]
             THEN IF sprite_index = 8
                  THEN [p EXCEPT !.status_register.sprite_overflow = TRUE]
                  ELSE SpriteEvaluation(
                         [p EXCEPT !.secondary_oam =
                            [@ EXCEPT ![sprite_index * 4] = s0,
                                      ![sprite_index * 4 + 1] = s1,
                                      ![sprite_index * 4 + 2] = SecondaryAttr(s2, index),
                                      ![sprite_index * 4 + 3] = s3]],
                         index + 1, sprite_index + 1)
             ELSE SpriteEvaluation(p, index + 1, sprite_index)

\* (a start of vblank that leaves the sprite flags alone)
StartVblank_KeepsFlags(p) == [p EXCEPT !.status_register.vblank_started = TRUE]

\* start_vblank, without its calls to the cpu and the screen
StartVblank(p) ==
    [p EXCEPT !.status_register.vblank_started = TRUE,
              !.status_register.sprite_zero_hit = FALSE,
              !.status_register.sprite_overflow = FALSE]

\* end_vblank
EndVblank(p) == [p EXCEPT !.status_register.vblank_started = FALSE]

\* (a line that ends one dot late)
LineDone_Late(p) == p.line_progress > DotsPerLine

\* if self.line_progress > 340
LineDone(p) == p.line_progress > DotsPerLine - 1

\* (a driver that signals a complete frame at the end of every line)
UpdateScanline_FrameEveryLine(p0) ==
    LET p1 == [p0 EXCEPT !.line_progress = @ + 1]
        p2 == IF p1.line_progress >= 257 /\ p1.line_progress <= 320
              THEN [p1 EXCEPT !.oam_addr = OamAddrWrite(0)]
              ELSE p1
    IN  IF LineDone(p2)
        THEN LET p3 == [p2 EXCEPT !.line_progress = @ - DotsPerLine,
                                  !.scanline = @ + 1,
                                  !.secondary_oam = [i \in 0..31 |-> \Hff]]
                 p4 == SpriteEvaluation(p3, 0, 0)
                 vb == p4.scanline = VblankLine
                 p5 == IF vb THEN StartVblank(p4) ELSE p4
                 p6 == IF p5.scanline > LastScanline
                       THEN EndVblank([p5 EXCEPT !.scanline = 0])
                       ELSE p5
             IN  [ppu |-> p6,
                  nmi |-> vb /\ p4.controller_register.should_generate_vblank_nmi,
                  frame |-> TRUE]
        ELSE [ppu |-> p2, nmi |-> FALSE, frame |-> FALSE]

\* (a driver that leaves oam_addr to the CPU)
UpdateScanline_NoReset(p0) ==
    LET p2 == [p0 EXCEPT !.line_progress = @ + 1]
    IN  IF LineDone(p2)
        THEN LET p3 == [p2 EXCEPT !.line_progress = @ - DotsPerLine,
                                  !.scanline = @ + 1,
                                  !.secondary_oam = [i \in 0..31 |-> \Hff]]
                 p4 == SpriteEvaluation(p3, 0, 0)
                 vb == p4.scanline = VblankLine
                 p5 == IF vb THEN StartVblank(p4) ELSE p4
                 p6 == IF p5.scanline > LastScanline
                       THEN EndVblank([p5 EXCEPT !.scanline = 0])
                       ELSE p5
             IN  [ppu |-> p6,
                  nmi |-> vb /\ p4.controller_register.should_generate_vblank_nmi,
                  frame |-> vb]
        ELSE [ppu |-> p2, nmi |-> FALSE, frame |-> FALSE]

\* (an evaluation that starts from the secondary OAM of the line before)
UpdateScanline_NoClear(p0) ==
    LET p1 == [p0 EXCEPT !.line_progress = @ + 1]
        p2 == IF p1.line_progress >= 257 /\ p1.line_progress <= 320
              THEN [p1 EXCEPT !.oam_addr = OamAddrWrite(0)]
              ELSE p1
    IN  IF LineDone(p2)
        THEN LET p3 == [p2 EXCEPT !.line_progress = @ - DotsPerLine,
                                  !.scanline = @ + 1]
                 p4 == SpriteEvaluation(p3, 0, 0)
                 vb == p4.scanline = VblankLine
                 p5 == IF vb THEN StartVblank(p4) ELSE p4
                 p6 == IF p5.scanline > LastScanline
                       THEN EndVblank([p5 EXCEPT !.scanline = 0])
                       ELSE p5
             IN  [ppu |-> p6,
                  nmi |-> vb /\ p4.controller_register.should_generate_vblank_nmi,
                  frame |-> vb]
        ELSE [ppu |-> p2, nmi |-> FALSE, frame |-> FALSE]

\* update_scanline: the PPU after the step, whether the step called
\* cpu.non_maskable_interrupt(), and whether it called screen.render_frame()
UpdateScanline(p0) ==
    LET p1 == [p0 EXCEPT !.line_progress = @ + 1]
        p2 == IF p1.line_progress >= 257 /\ p1.line_progress <= 320
              THEN [p1 EXCEPT !.oam_addr = OamAddrWrite(0)]
              ELSE p1
    IN  IF LineDone(p2)
        THEN LET p3 == [p2 EXCEPT !.line_progress = @ - DotsPerLine,
                                  !.scanline = @ + 1,
                                  !.secondary_oam = [i \in 0..31 |-> \Hff]]
                 p4 == SpriteEvaluation(p3, 0, 0)
                 vb == p4.scanline = VblankLine
                 p5 == IF vb THEN StartVblank(p4) ELSE p4
                 p6 == IF p5.scanline > LastScanline
                       THEN EndVblank([p5 EXCEPT !.scanline = 0])
                       ELSE p5
             IN  [ppu |-> p6,
                  nmi |-> vb /\ p4.controller_register.should_generate_vblank_nmi,
                  frame |-> vb]
        ELSE [ppu |-> p2, nmi |-> FALSE, frame |-> FALSE]

\* blanking
Blanking(p) == ~(p.line_progress < WIDTH /\ p.scanline < HEIGHT)

\* u16 arithmetic of a build without overflow checks
W16(x) == x % 65536

\* draw_pixel at (x, y): the nametable address of the tile it reads, the
\* pattern value (0 is the backdrop) of the background there, and whether a
\* nametable or attribute read fails
DrawPixel(p, chr, x, y, scroll_x, scroll_y, name_table_address) ==
    LET scrolled_x == (x + scroll_x) % (WIDTH * 2)
        scrolled_y == (y + scroll_y) % (HEIGHT * 2)
        name_table_idx == (scrolled_x \div WIDTH) + (scrolled_y \div HEIGHT) * 2
        tile_nametable_address == W16(name_table_address + name_table_idx * \H400)
        attr_table == W16(tile_nametable_address + \H3c0)
        tile_x == (scrolled_x \div 8) % 32
        tile_y == (scrolled_y \div 8) % 30
        off == tile_x + tile_y * 32
        tile_address == W16(tile_nametable_address + off)
        tile_num == VramLoad(p, tile_address)
        attr == VramLoad(p, W16(attr_table + (tile_y \div 4) * 8 + (tile_x \div 4)))
        tile_x_off == 7 - (scrolled_x % 8)
        tile_y_off == scrolled_y % 8
        bank == p.controller_register.background_pattern_address
        byte_upper == PpuReadChrRom(chr, W16(bank + W16(tile_num * 16 + tile_y_off)))
        byte_lower == PpuReadChrRom(chr, W16(bank + W16(tile_num * 16 + tile_y_off + 8)))
        failed == tile_num = InvalidMirror \/ attr = InvalidMirror
    IN  [tile_address |-> tile_address,
         pattern |-> IF failed THEN 0
                     ELSE (IF Bit(byte_lower, tile_x_off) THEN 2 ELSE 0)
                          + (IF Bit(byte_upper, tile_x_off) THEN 1 ELSE 0),
         panics |-> failed]

\* draw_sprite_pixel for the secondary-OAM entry `sprite`, given the row
\* offset sprite_y_off0 its caller computed: whether the pixel is opaque,
\* whether it reports a sprite-zero hit, and whether the arithmetic
\* overflowed (a panic in a build with overflow checks)
DrawSpritePixel(p, chr, sprite, sprite_x_off0, sprite_y_off0) ==
    LET height == p.controller_register.sprite_size[2]
        tile0 == sprite[2]
        flip_y == Bit(sprite[3], 7)
        flip_x == Bit(sprite[3], 6)
        y1 == IF flip_y THEN W16((height - 1) - sprite_y_off0) ELSE sprite_y_off0
        of1 == flip_y /\ sprite_y_off0 > height - 1
        x1 == IF ~flip_x THEN 7 - sprite_x_off0 ELSE sprite_x_off0
        tall == height = 16
        y2 == IF tall /\ y1 > 7 THEN y1 - 8 ELSE y1
        tile == IF tall
                THEN (IF y1 > 7 THEN (tile0 \div 2) * 2 + 1 ELSE (tile0 \div 2) * 2)
                ELSE tile0
        bank == IF tall
                THEN (IF tile0 % 2 = 1 THEN \H1000 ELSE 0)
                ELSE p.controller_register.sprite_pattern_address
        of2 == bank + tile * 16 + y2 + 8 > 65535
        byte_upper == PpuReadChrRom(chr, W16(bank + W16(tile * 16 + y2)))
        byte_lower == PpuReadChrRom(chr, W16(bank + W16(tile * 16 + y2 + 8)))
        bit_upper == Bit(byte_upper, x1)
        bit_lower == Bit(byte_lower, x1)
        opaque == bit_upper \/ bit_lower
    IN  [opaque |-> opaque,
         hit |-> opaque /\ Bit(sprite[3], 2),
         overflow |-> of1 \/ of2]

\* the secondary-OAM entry i as draw_sprites reads it
SecondaryEntry(p, i) ==
    <<p.secondary_oam[i * 4], p.secondary_oam[i * 4 + 1],
      p.secondary_oam[i * 4 + 2], p.secondary_oam[i * 4 + 3]>>

\* the entries draw_sprites draws at the current dot
DrawnEntries(p) ==
    {i \in 0..7 :
        LET e == SecondaryEntry(p, i)
        IN  /\ p.line_progress >= e[4]
            /\ p.line_progress < e[4] + 8
            /\ e[1] # \Hff}

\* the call of draw_sprite_pixel for entry i
DrawEntry(p, chr, i) ==
    LET e == SecondaryEntry(p, i)
        r == DrawSpritePixel(p, chr, e, p.line_progress - e[4], W16(p.scanline - e[1]))
    IN  [r EXCEPT !.overflow = @ \/ p.scanline < e[1]]

\* draw_sprites: the sprite-zero hit it returns, and whether its arithmetic
\* overflowed
DrawSprites(p, chr) ==
    [hit |-> \E i \in DrawnEntries(p) : DrawEntry(p, chr, i).hit,
     overflow |-> \E i \in DrawnEntries(p) : DrawEntry(p, chr, i).overflow]

\* Ppu::update in a build whose overflow checks are `checks`: on an overflow
\* a checking build panics, the other one goes on with the wrapped values
Update(p0, chr, checks) ==
    LET s == UpdateScanline(p0)
        p == s.ppu
        d == DrawSprites(p, chr)
        drawn == ~Blanking(p)
    IN  [ppu |-> IF drawn /\ d.overflow /\ checks
                 THEN [p EXCEPT !.panicked = TRUE]
                 ELSE IF drawn /\ d.hit
                      THEN [p EXCEPT !.status_register.sprite_zero_hit = TRUE]
                      ELSE p,
         nmi |-> s.nmi,
         frame |-> s.frame,
         pixel |-> drawn]

(***************************************************************************)
(* State.                                                                  *)
(*   ppu     the Ppu                                                       *)
(*   cpu     the caller's Cpu: its cartridge image, the number of          *)
(*           non_maskable_interrupt calls it has received, and the         *)
(*           (address, value) pairs its ppu_memory_write has received      *)
(*   screen  the ScreenWriter: its kind, the number of frames it copied to *)
(*           the shared surface, and whether its private buffer holds      *)
(*           pixels drawn since the last copy                              *)
(*   checks  whether the build checks integer overflow ("on": it panics,   *)
(*           "off": it wraps); fixed the first time an overflow happens    *)
(*   h       the last operation performed and what it returned             *)
(*   budget  the operations and steps performed so far                     *)
(*   run     the pacing loop run_ppu: its position, counters and channel   *)
(*   prog    the register program the CPU is running, and its position     *)
(***************************************************************************)
VARIABLES ppu, cpu, screen, checks, h, budget, run, prog

vars == <<ppu, cpu, screen, checks, h, budget, run, prog>>

NoOp ==
    [op |-> "none", register |-> "none", value |-> 0,
     nmi |-> FALSE, frame |-> FALSE, pixel |-> FALSE]

NoBudget == [ops |-> 0, steps |-> 0, dots |-> 0]

\* Screen::new ("Real") and Screen::dummy ("Dummy")
ScreenNew(kind) == [kind |-> kind, frames |-> 0, pending |-> FALSE]

NoRun == [pc |-> "off"]

NoProg ==
    [name |-> "none", script |-> << >>, pc |-> 0, free |-> 0, reads |-> << >>,
     latch |-> TRUE, a |-> 0, b |-> 0, v |-> 0]

\* the values the CPU writes to each register
WriteValues(register) ==
    CASE register = "Controller" -> {\H00, \H01, \Ha4}
      [] register = "Mask" -> {\H1e}
      [] register = "Status" -> {\H55}
      [] register = "OamAddress" -> {\H04}
      [] register = "OamData" -> {\H0a}
      [] register = "Scroll" -> {\H07, \H10}
      [] register = "Address" -> {\H20, \H3f}
      [] register = "Data" -> {\H2a}

\* the pages the CPU hands to write_oam_dma: every sprite hidden at Y = 0xff,
\* and nine sprites on line 10 followed by hidden ones
OamHidden == [i \in 0..255 |-> \Hff]

OamNine ==
    [i \in 0..255 |->
        IF i < 36
        THEN (CASE i % 4 = 0 -> 10
                [] i % 4 = 1 -> 1
                [] i % 4 = 2 -> \Hff
                [] i % 4 = 3 -> 8 * (i \div 4))
        ELSE \Hff]

\* nine sprites on scanlines 241-248, the rest hidden
OamNineLate == [i \in 0..255 |-> IF i < 36 /\ i % 4 = 0 THEN 241 ELSE OamNine[i]]

OamPages == {OamHidden, OamNine, OamNineLate}

\* a write of `value` to `register` by the CPU
CpuWrite(register, value) ==
    /\ ~ppu.panicked
    /\ ppu' = WritePpuRegister(ppu, register, value)
    /\ h' = [NoOp EXCEPT !.op = "write", !.register = register, !.value = value]
    /\ budget' = [budget EXCEPT !.ops = @ + 1]
    /\ UNCHANGED <<cpu, screen, checks>>

\* a read of `register` by the CPU
CpuRead(register) ==
    /\ ~ppu.panicked
    /\ ppu' = ReadPpuRegister(ppu, register, cpu.chr)
    /\ h' = [NoOp EXCEPT !.op = "read", !.register = register,
                         !.value = ReadPpuRegister(ppu, register, cpu.chr).bus]
    /\ budget' = [budget EXCEPT !.ops = @ + 1]
    /\ UNCHANGED <<cpu, screen, checks>>

\* a write to 0x4014 by the CPU
CpuOamDma(data_to_write) ==
    /\ ~ppu.panicked
    /\ ppu' = WriteOamDma(ppu, data_to_write)
    /\ h' = [NoOp EXCEPT !.op = "dma"]
    /\ budget' = [budget EXCEPT !.ops = @ + 1]
    /\ UNCHANGED <<cpu, screen, checks>>

\* one call of Ppu::update
PpuUpdate ==
    /\ ~ppu.panicked
    /\ \E c \in (IF checks = "undetermined" /\ Update(ppu, cpu.chr, TRUE).ppu.panicked
                 THEN {"on", "off"}
                 ELSE {checks}) :
         LET u == Update(ppu, cpu.chr, c = "on")
         IN  /\ checks' = c
             /\ ppu' = u.ppu
             /\ cpu' = [cpu EXCEPT !.nmi = IF u.nmi THEN @ + 1 ELSE @]
             /\ screen' = IF screen.kind = "Real"
                           THEN [screen EXCEPT
                                   !.frames = IF u.frame THEN @ + 1 ELSE @,
                                   !.pending = IF u.frame THEN FALSE ELSE @ \/ u.pixel]
                           ELSE screen
             /\ h' = [NoOp EXCEPT !.op = "update", !.nmi = u.nmi,
                                  !.frame = u.frame, !.pixel = u.pixel]
    /\ budget' = [budget EXCEPT !.steps = IF budget.ops = 0 THEN @ ELSE @ + 1,
                                !.dots = IF budget.ops = 0 THEN @ + 1 ELSE @]

(***************************************************************************)
(* Spec: the PPU driven dot by dot from its construction, with the CPU     *)
(* performing register operations.  The PPU first runs undisturbed for any *)
(* number of dots up to MaxDots; the CPU starts its operations at one of   *)
(* the positions of OpWindows, and from then on at most MaxOps operations  *)
(* and MaxSteps update steps are explored, in every interleaving.          *)
(***************************************************************************)
\* the (scanline, dot) positions at which the CPU may start
OpWindows ==
    {<<0, 0>>, <<0, 338>>, <<1, 0>>, <<9, 338>>, <<10, 254>>,
     <<240, 338>>, <<241, 0>>, <<261, 338>>}

Init ==
    /\ ppu = PpuNew("Horizontal")
    /\ cpu = [chr |-> "stripes", nmi |-> 0, memory_writes |-> << >>]
    /\ screen = ScreenNew("Real")
    /\ checks = "undetermined"
    /\ h = NoOp
    /\ budget = NoBudget
    /\ run = NoRun
    /\ prog = NoProg

CpuMayAct ==
    /\ budget.ops < MaxOps
    /\ budget.ops = 0 => <<ppu.scanline, ppu.line_progress>> \in OpWindows

PpuMayStep ==
    IF budget.ops = 0 THEN budget.dots < MaxDots ELSE budget.steps < MaxSteps

Tick ==
    /\ CpuMayAct
    /\ \/ \E register \in PpuRegister : \E value \in WriteValues(register) :
            CpuWrite(register, value)
       \/ \E register \in PpuRegister : CpuRead(register)
       \/ \E data \in OamPages : CpuOamDma(data)
    /\ UNCHANGED <<run, prog>>

Step == PpuMayStep /\ PpuUpdate /\ UNCHANGED <<run, prog>>

Next == Tick \/ Step

Spec == Init /\ [][Next]_vars

(***************************************************************************)
(* The pacing loop run_ppu (run.rs).  run.pc is the position of the worker *)
(* in the loop: "drain" (the try_recv loop), "paused" (the blocking recv   *)
(* loop), "tick" (before cpu.tick), "update" (the three ppu.update calls,  *)
(* run.k of them done), "batch" (after the inner for loop), "done".        *)
(* run.main is the state of the main thread of run_cpu and run.handle      *)
(* whether the JoinHandle of the worker is still in its mutex.             *)
(***************************************************************************)
\* const ITER_PER_CYCLE
ITER_PER_CYCLE == 1000
\* for _ in 0..3
UpdatesPerTick == 3

\* ticks of a run without a cycle limit that are explored
MaxTicks == 4
\* ticks in which the CPU performs a register operation
EarlyTicks == 1
\* messages the main thread sends
MaxMsgs == 2

\* the cycle limits given to run_cpu_headless_for
CycleLimits == {0, 1000}

Button(name, pressed) == [kind |-> "Button", name |-> name, flag |-> pressed]

Pause(paused) == [kind |-> "Pause", name |-> "none", flag |-> paused]

\* the messages the main thread sends
Messages == {Button("a", TRUE), Button("start", FALSE), Pause(TRUE), Pause(FALSE)}

\* the locals of run_ppu when it starts
RunNew(writer, limited, max_cycles) ==
    [pc |-> "drain",
     writer |-> writer,
     limited |-> limited,
     max_cycles |-> max_cycles,
     cycles |-> 0,
     i |-> 0,
     k |-> 0,
     ticks |-> 0,
     result |-> "running",
     chan |-> << >>,
     tx_alive |-> writer = "Real",
     sent |-> 0,
     main |-> IF writer = "Real" THEN "running" ELSE "none",
     handle |-> writer = "Real"]

\* run_cpu_headless_for, run_cpu_headless and run_cpu
InitRun ==
    /\ ppu = PpuNew("Horizontal")
    /\ cpu = [chr |-> "stripes", nmi |-> 0, memory_writes |-> << >>]
    /\ checks = "undetermined"
    /\ h = NoOp
    /\ budget = NoBudget
    /\ prog = NoProg
    /\ run \in {RunNew("Dummy", TRUE, l) : l \in CycleLimits}
              \cup {RunNew("Dummy", FALSE, 0), RunNew("Real", FALSE, 0)}
    /\ screen = ScreenNew(run.writer)

\* while let Ok(msg) = buttons_rx.try_recv(): one message
RunDrainRecv ==
    /\ run.pc = "drain"
    /\ run.writer = "Real"
    /\ run.chan # << >>
    /\ LET msg == Head(run.chan)
       IN  /\ ppu' = IF msg.kind = "Button"
                     THEN [ppu EXCEPT !.buttons[msg.name] = msg.flag]
                     ELSE ppu
           /\ run' = [run EXCEPT !.chan = Tail(@),
                                 !.pc = IF msg = Pause(TRUE) THEN "paused" ELSE "drain"]
    /\ h' = [NoOp EXCEPT !.op = "recv"]
    /\ UNCHANGED <<cpu, screen, checks, budget, prog>>

\* try_recv fails (the channel is empty or disconnected), or the writer is
\* the dummy one
RunDrainDone ==
    /\ run.pc = "drain"
    /\ run.writer = "Dummy" \/ run.chan = << >>
    /\ run' = [run EXCEPT !.pc = "tick"]
    /\ h' = [NoOp EXCEPT !.op = "drained"]
    /\ UNCHANGED <<ppu, cpu, screen, checks, budget, prog>>

\* while let Message::Pause(true) = buttons_rx.recv().expect("sender closed")
RunPausedRecv ==
    /\ run.pc = "paused"
    /\ run.chan # << >>
    /\ run' = [run EXCEPT !.chan = Tail(@),
                          !.pc = IF Head(run.chan) = Pause(TRUE) THEN "paused" ELSE "drain"]
    /\ h' = [NoOp EXCEPT !.op = "recv"]
    /\ UNCHANGED <<ppu, cpu, screen, checks, budget, prog>>

\* recv fails: the sender is dropped and the channel is empty
RunPausedClosed ==
    /\ run.pc = "paused"
    /\ run.chan = << >>
    /\ ~run.tx_alive
    /\ run' = [run EXCEPT !.pc = "done", !.result = "panic"]
    /\ h' = [NoOp EXCEPT !.op = "closed"]
    /\ UNCHANGED <<ppu, cpu, screen, checks, budget, prog>>

RunMayTick == run.pc = "tick" /\ (run.limited \/ run.ticks < MaxTicks)

\* (a loop that notes the error and goes on with the updates)
RunTickFails_GoesOn ==
    /\ RunMayTick
    /\ run' = [run EXCEPT !.pc = "update", !.k = 0, !.result = "err"]
    /\ h' = [NoOp EXCEPT !.op = "tick_err"]
    /\ UNCHANGED <<ppu, cpu, screen, checks, budget, prog>>

\* cpu.tick returns Err(e): return Err(e)
RunTickFails ==
    /\ RunMayTick
    /\ run' = [run EXCEPT !.pc = "done", !.result = "err"]
    /\ h' = [NoOp EXCEPT !.op = "tick_err"]
    /\ UNCHANGED <<ppu, cpu, screen, checks, budget, prog>>

\* cpu.tick returns Ok(()) without having touched the PPU
RunTickIdle ==
    /\ RunMayTick
    /\ run' = [run EXCEPT !.pc = "update", !.k = 0, !.ticks = @ + 1]
    /\ h' = [NoOp EXCEPT !.op = "tick"]
    /\ UNCHANGED <<ppu, cpu, screen, checks, budget, prog>>

\* cpu.tick returns Ok(()) after a register operation on the PPU
RunTickOp ==
    /\ RunMayTick
    /\ run.ticks < EarlyTicks
    /\ \/ CpuWrite("Controller", \H80)
       \/ CpuRead("Status")
       \/ CpuOamDma(OamHidden)
    /\ run' = [run EXCEPT !.pc = "update", !.k = 0, !.ticks = @ + 1]
    /\ UNCHANGED prog

\* (a loop that goes back to the drain after two updates)
RunAfterUpdate_Two(r, panicked) ==
    CASE panicked -> [r EXCEPT !.pc = "done", !.result = "panic"]
      [] r.k + 1 < UpdatesPerTick - 1 -> [r EXCEPT !.k = @ + 1]
      [] r.i + 1 < ITER_PER_CYCLE -> [r EXCEPT !.pc = "drain", !.i = @ + 1]
      [] OTHER -> [r EXCEPT !.pc = "batch"]

\* the loop position after one ppu.update of the for _ in 0..3 loop
RunAfterUpdate(r, panicked) ==
    CASE panicked -> [r EXCEPT !.pc = "done", !.result = "panic"]
      [] r.k + 1 < UpdatesPerTick -> [r EXCEPT !.k = @ + 1]
      [] r.i + 1 < ITER_PER_CYCLE -> [r EXCEPT !.pc = "drain", !.i = @ + 1]
      [] OTHER -> [r EXCEPT !.pc = "batch"]

\* ppu.update(cpu, writer)
RunUpdate ==
    /\ run.pc = "update"
    /\ PpuUpdate
    /\ run' = RunAfterUpdate(run, ppu'.panicked)
    /\ UNCHANGED prog

\* cycles += ITER_PER_CYCLE; the break on max_cycles; the sleep
RunBatchEnd ==
    /\ run.pc = "batch"
    /\ run' = IF run.limited /\ run.cycles + ITER_PER_CYCLE > run.max_cycles
              THEN [run EXCEPT !.cycles = @ + ITER_PER_CYCLE,
                               !.pc = "done", !.result = "ok"]
              ELSE [run EXCEPT !.cycles = @ + ITER_PER_CYCLE, !.pc = "drain", !.i = 0]
    /\ h' = [NoOp EXCEPT !.op = "batch"]
    /\ UNCHANGED <<ppu, cpu, screen, checks, budget, prog>>

\* control_tx.send(msg) on the main thread
MainSend ==
    /\ run.main = "running"
    /\ run.tx_alive
    /\ run.pc # "done"
    /\ run.sent < MaxMsgs
    /\ \E msg \in Messages :
         run' = [run EXCEPT !.chan = Append(@, msg), !.sent = @ + 1]
    /\ h' = [NoOp EXCEPT !.op = "send"]
    /\ UNCHANGED <<ppu, cpu, screen, checks, budget, prog>>

\* control_tx.send(msg).expect("failed to send") after the worker has
\* finished and dropped the receiver
MainSendFails ==
    /\ run.main = "running"
    /\ run.pc = "done"
    /\ run' = [run EXCEPT !.main = "panicked", !.tx_alive = FALSE]
    /\ h' = [NoOp EXCEPT !.op = "event"]
    /\ UNCHANGED <<ppu, cpu, screen, checks, budget, prog>>

\* an event that sends nothing, after the worker has finished: the
\* is_finished() branch takes the handle out of the mutex and returns from
\* the callback; with the handle already taken, as_ref().unwrap() panics
MainSeesFinished ==
    /\ run.main = "running"
    /\ run.pc = "done"
    /\ run' = IF run.handle
              THEN [run EXCEPT !.handle = FALSE]
              ELSE [run EXCEPT !.main = "panicked", !.tx_alive = FALSE]
    /\ h' = [NoOp EXCEPT !.op = "event"]
    /\ UNCHANGED <<ppu, cpu, screen, checks, budget, prog>>

\* CloseRequested: the event loop exits and drops control_tx
MainExit ==
    /\ run.main = "running"
    /\ run' = [run EXCEPT !.tx_alive = FALSE, !.main = "exited"]
    /\ h' = [NoOp EXCEPT !.op = "exit"]
    /\ UNCHANGED <<ppu, cpu, screen, checks, budget, prog>>

NextRun ==
    \/ RunDrainRecv
    \/ RunDrainDone
    \/ RunPausedRecv
    \/ RunPausedClosed
    \/ RunTickFails
    \/ RunTickIdle
    \/ RunTickOp
    \/ RunUpdate
    \/ RunBatchEnd
    \/ MainSend
    \/ MainSendFails
    \/ MainSeesFinished
    \/ MainExit

SpecRun == InitRun /\ [][NextRun]_vars

(***************************************************************************)
(* Register programs: the CPU runs a fixed sequence of register            *)
(* operations (prog.script), prog.pc of them done.  prog.reads are the     *)
(* bytes the reads of the script returned, prog.latch the value of         *)
(* scroll_addr_latch when the script started, prog.free the number of Data *)
(* operations done after the script.                                       *)
(***************************************************************************)
\* Data operations after an address program
MaxData == 3
\* register operations before the program starts
PreOps == 2

W(register, value) == [op |-> "write", register |-> register, value |-> value]

R(register) == [op |-> "read", register |-> register, value |-> 0]

\* write v at PPU address a, then read twice from PPU address b
WriteThenRead(a, b, v) ==
    [name |-> "write_read",
     script |-> << W("Address", a \div 256), W("Address", a % 256), W("Data", v),
                   W("Address", b \div 256), W("Address", b % 256),
                   R("Data"), R("Data") >>,
     pc |-> 0, free |-> 0, reads |-> << >>, latch |-> TRUE,
     a |-> a, b |-> b, v |-> v]

\* write c to Controller and the address a to Address; Data operations follow
SetAddress(c, a) ==
    [name |-> "address",
     script |-> << W("Controller", c), W("Address", a \div 256), W("Address", a % 256) >>,
     pc |-> 0, free |-> 0, reads |-> << >>, latch |-> TRUE,
     a |-> a, b |-> a, v |-> c]

\* write v to OAM at a through OamAddress and OamData, set OamAddress to a
\* again and read OamData
OamWriteRead(a, v) ==
    [name |-> "oam_read",
     script |-> << W("OamAddress", a), W("OamData", v), W("OamAddress", a),
                   R("OamData") >>,
     pc |-> 0, free |-> 0, reads |-> << >>, latch |-> TRUE,
     a |-> a, b |-> a, v |-> v]

AddressSamples ==
    {hi * 256 + lo : hi \in {\H00, \H1f, \H20, \H2f, \H30, \H3e, \H3f},
                     lo \in {\H00, \H01, \He0, \Hff}}

BufferedSamples == {\H0000, \H0008, \H2000, \H2c05, \H3000, \H3eff}

DataPrograms ==
    {SetAddress(c, a) : c \in {\H00, \H04}, a \in AddressSamples}
    \cup {WriteThenRead(a, a, \H11) : a \in BufferedSamples}
    \cup UNION {{WriteThenRead(a, b, \H2a) :
                    b \in {y \in \H3f00..\H3f3f : (y - a) % 16 = 0}} :
                 a \in \H3f00..\H3fff}
    \cup {OamWriteRead(a, v) : a \in {\H00, \H04, \Hff}, v \in {\H04, \H0a}}

MirrorPrograms == {WriteThenRead(a, a, \H2a) : a \in \H2000..\H2fff}

\* a register operation before the program starts
ProgBefore ==
    /\ prog.pc = 0
    /\ budget.ops < PreOps
    /\ \/ CpuWrite("Controller", \H04)
       \/ CpuWrite("Address", \H3f)
       \/ CpuWrite("Data", \H11)
       \/ CpuRead("Data")
    /\ UNCHANGED <<run, prog>>

\* the next operation of the script
ProgStep ==
    /\ prog.pc < Len(prog.script)
    /\ LET o == prog.script[prog.pc + 1]
       IN  /\ IF o.op = "write" THEN CpuWrite(o.register, o.value) ELSE CpuRead(o.register)
           /\ prog' = [prog EXCEPT
                         !.pc = @ + 1,
                         !.latch = IF prog.pc = 0 THEN ppu.scroll_addr_latch ELSE @,
                         !.reads = IF o.op = "read" THEN Append(@, h'.value) ELSE @]
    /\ UNCHANGED run

\* a Data read or write after an address program
ProgData ==
    /\ prog.name = "address"
    /\ prog.pc = Len(prog.script)
    /\ prog.free < MaxData
    /\ CpuWrite("Data", \H2a) \/ CpuRead("Data")
    /\ prog' = [prog EXCEPT !.free = @ + 1]
    /\ UNCHANGED run

InitData ==
    /\ ppu = PpuNew("Horizontal")
    /\ cpu = [chr |-> "stripes", nmi |-> 0, memory_writes |-> << >>]
    /\ screen = ScreenNew("Dummy")
    /\ checks = "undetermined"
    /\ h = NoOp
    /\ budget = NoBudget
    /\ run = NoRun
    /\ prog \in DataPrograms

NextData == ProgBefore \/ ProgStep \/ ProgData

SpecData == InitData /\ [][NextData]_vars

InitMirror ==
    /\ ppu \in {PpuNew(m) : m \in Mirrorings}
    /\ cpu = [chr |-> "stripes", nmi |-> 0, memory_writes |-> << >>]
    /\ screen = ScreenNew("Dummy")
    /\ checks = "undetermined"
    /\ h = NoOp
    /\ budget = NoBudget
    /\ run = NoRun
    /\ prog \in MirrorPrograms

NextMirror == ProgStep

SpecMirror == InitMirror /\ [][NextMirror]_vars

(***************************************************************************)
(* SpecFrames: the PPU driven from its construction through two starts of  *)
(* vblank, with a real screen.  On the last dot of line 240 the CPU may    *)
(* enable the NMI; the run goes on to the bound either way.                *)
(***************************************************************************)
\* update steps of the run: the second start of vblank is step
\* 241 * 341 + 262 * 341 = 171523
MaxFrameDots == 171600

\* the CPU enables the vblank NMI just before a start of vblank
FrameOp ==
    /\ budget.ops = 0
    /\ ppu.scanline = HEIGHT
    /\ ppu.line_progress = DotsPerLine - 1
    /\ CpuWrite("Controller", \H80)
    /\ UNCHANGED <<run, prog>>

FrameStep ==
    /\ budget.dots + budget.steps < MaxFrameDots
    /\ PpuUpdate
    /\ UNCHANGED <<run, prog>>

NextFrames == FrameOp \/ FrameStep

SpecFrames == Init /\ [][NextFrames]_vars

(***************************************************************************)
(* SpecAddr: register operations that move the PPU address and the scroll, *)
(* and update steps that draw the first pixels, in each mirroring mode.    *)
(***************************************************************************)
\* register operations of a run
MaxAddrOps == 4
\* update steps of a run
MaxAddrSteps == 2

\* the bytes written to Address, Controller (increment 32, nametable bits
\* 3) and Scroll
AddrValues(register) ==
    CASE register = "Address" -> {\H1f, \H20, \H2f, \H3e, \H3f, \Hff}
      [] register = "Controller" -> {\H07}
      [] register = "Scroll" -> {\Hff}
      [] register = "Data" -> {\H2a}

InitAddr ==
    /\ ppu \in {PpuNew(m) : m \in Mirrorings}
    /\ cpu = [chr |-> "stripes", nmi |-> 0, memory_writes |-> << >>]
    /\ screen = ScreenNew("Dummy")
    /\ checks = "undetermined"
    /\ h = NoOp
    /\ budget = NoBudget
    /\ run = NoRun
    /\ prog = NoProg

AddrTick ==
    /\ budget.ops < MaxAddrOps
    /\ \/ \E register \in {"Address", "Controller", "Scroll", "Data"} :
            \E value \in AddrValues(register) : CpuWrite(register, value)
       \/ \E register \in {"Data", "Status"} : CpuRead(register)
    /\ UNCHANGED <<run, prog>>

AddrStep ==
    /\ budget.dots + budget.steps < MaxAddrSteps
    /\ PpuUpdate
    /\ UNCHANGED <<run, prog>>

NextAddr == AddrTick \/ AddrStep

SpecAddr == InitAddr /\ [][NextAddr]_vars

(***************************************************************************)
(* Claims checked under Spec.                                              *)
(***************************************************************************)
\* C2: after every PPU update step, under any interleaving of register
\* reads and writes and OAM DMA, the dot (line_progress) is below 341 and the
\* scanline is below 262
C2_DotAndScanlineInRange ==
    h.op = "update" => (ppu.line_progress < 341 /\ ppu.scanline < 262)

\* the step that wraps the frame, taken after the CPU has acted
C2_Witness ==
    /\ h.op = "update"
    /\ budget.ops > 0
    /\ screen.frames = 1
    /\ ppu.scanline = 0
    /\ ppu.line_progress = 0

\* C3: every write to Address and every write to Scroll leaves the shared
\* latch with the negation of the value it had before the write
C3_LatchFlips ==
    [][(h'.op = "write" /\ h'.register \in {"Address", "Scroll"})
          => ppu'.scroll_addr_latch = ~ppu.scroll_addr_latch]_vars

\* a second write, which flips the latch back to true
C3_Witness ==
    /\ h.op = "write"
    /\ h.register \in {"Address", "Scroll"}
    /\ budget.ops = 2
    /\ ppu.scroll_addr_latch

\* C4: a read of Status returns sprite_overflow, sprite_zero_hit and
\* vblank_started (as before the read) in bits 5, 6, 7 and the low 5 bits of
\* bus in bits 0-4; after it vblank_started is false and the latch is true,
\* and sprite_overflow and sprite_zero_hit are unchanged
C4_StatusRead ==
    [][(h'.op = "read" /\ h'.register = "Status")
          => /\ Bit(h'.value, 5) = ppu.status_register.sprite_overflow
             /\ Bit(h'.value, 6) = ppu.status_register.sprite_zero_hit
             /\ Bit(h'.value, 7) = ppu.status_register.vblank_started
             /\ h'.value % 32 = ppu.bus % 32
             /\ ~ppu'.status_register.vblank_started
             /\ ppu'.scroll_addr_latch
             /\ ppu'.status_register.sprite_overflow = ppu.status_register.sprite_overflow
             /\ ppu'.status_register.sprite_zero_hit = ppu.status_register.sprite_zero_hit]_vars

\* a Status read during vblank, after a write that left bus non-zero in its
\* low bits
C4_Witness ==
    /\ h.op = "read"
    /\ h.register = "Status"
    /\ Bit(h.value, 7)
    /\ h.value % 32 # 0
    /\ ~ppu.status_register.vblank_started

\* C11: in every update step that ends a line, with n the number of entries
\* in range for the incremented scanline among the 4-byte entries of oam
\* scanned from oam_addr, min(n, 8) entries of secondary_oam are populated
\* after the step; unless the step enters scanline 241, n >= 9 leaves
\* sprite_overflow true and n <= 8 leaves it as it was; the step that enters
\* scanline 241 leaves it false, the start of VBlank clearing it after the
\* evaluation
C11_EvaluationAndOverflow ==
    [][(h'.op = "update" /\ ppu.line_progress = 340 /\ ~ppu'.panicked) =>
         LET s == ppu.scanline + 1
             first == ppu.oam_addr.addr
             n == Cardinality({k \in 0..(((256 - first) \div 4) - 1) :
                     /\ s >= ArrGet(ppu.oam, first + 4 * k)
                     /\ s < ArrGet(ppu.oam, first + 4 * k)
                              + ppu.controller_register.sprite_size[2]})
             populated == Cardinality({j \in 0..7 : ppu'.secondary_oam[4 * j + 2] # \Hff})
         IN  /\ populated = (IF n > 8 THEN 8 ELSE n)
             /\ (s # 241 /\ n >= 9) => ppu'.status_register.sprite_overflow
             /\ (s # 241 /\ n <= 8) => ppu'.status_register.sprite_overflow
                                          = ppu.status_register.sprite_overflow
             /\ s = 241 => ~ppu'.status_register.sprite_overflow]_vars

\* S5: nine sprites on scanline 10 were loaded on scanline 9; the step to
\* scanline 10 has set sprite_overflow and populated eight entries
C11_Witness ==
    /\ h.op = "update"
    /\ ppu.scanline = 10
    /\ ppu.line_progress = 0
    /\ ppu.oam = ArrOf(OamNine)
    /\ ppu.oam_addr.addr = 0
    /\ ppu.status_register.sprite_overflow
    /\ \A j \in 0..7 : ppu.secondary_oam[4 * j] = 10 /\ ppu.secondary_oam[4 * j + 3] = 8 * j

\* C11 as stated: after every evaluation at most 8 entries are populated, a
\* 9th entry of primary OAM in range for the evaluated scanline means that
\* sprite_overflow is true after the step, and with 8 or fewer the step does
\* not set it
C11_NinthInPrimaryOam ==
    [][(h'.op = "update" /\ ppu.line_progress = 340 /\ ~ppu'.panicked) =>
         LET s == ppu.scanline + 1
             n == Cardinality({k \in 0..63 :
                     /\ s >= ArrGet(ppu.oam, 4 * k)
                     /\ s < ArrGet(ppu.oam, 4 * k) + ppu.controller_register.sprite_size[2]})
         IN  /\ Cardinality({j \in 0..7 : ppu'.secondary_oam[4 * j + 2] # \Hff}) <= 8
             /\ n >= 9 => ppu'.status_register.sprite_overflow
             /\ (n <= 8 /\ ~ppu.status_register.sprite_overflow)
                   => ~ppu'.status_register.sprite_overflow]_vars

\* C12: sprite_zero_hit becomes true only in an update step that draws a
\* visible pixel at which the background produces a non-zero pattern value
\* (and sprite 0 does too); a sprite-0 pixel over a transparent background
\* pixel does not set the flag
C12_HitNeedsBackground ==
    [][(/\ h'.op = "update"
        /\ ~ppu'.panicked
        /\ ~ppu.status_register.sprite_zero_hit
        /\ ppu'.status_register.sprite_zero_hit)
          => /\ ~Blanking(ppu')
             /\ DrawPixel(ppu', cpu.chr, ppu'.line_progress, ppu'.scanline,
                          ppu'.scroll.x, ppu'.scroll.y,
                          ppu'.controller_register.nametable_address).pattern # 0]_vars

\* C13: an update step calls non_maskable_interrupt exactly when it brings
\* the PPU to scanline 241, dot 1 with the NMI-enable bit of Controller set:
\* one call per frame, made at dot 1 of line 241, and none when the bit is
\* clear
C13_NmiAtDotOne ==
    [][h'.op = "update" =>
         (h'.nmi <=> (/\ ppu'.scanline = 241
                      /\ ppu'.line_progress = 1
                      /\ ppu.controller_register.should_generate_vblank_nmi))]_vars

C20_NametableBase ==
    [][(h'.op = "update" /\ h'.pixel) =>
         ppu'.controller_register.nametable_address
            = \H2000 + \H400 * (ppu'.controller_register.binary_value % 4)]_vars

\* C24: after the update step that makes scanline 241, vblank_started is
\* true and sprite_zero_hit and sprite_overflow are false; after the step
\* that moves scanline past 261, scanline is 0 and vblank_started is false
C24_VblankFlags ==
    (h.op = "update" /\ ppu.line_progress = 0) =>
        /\ ppu.scanline = VblankLine =>
              /\ ppu.status_register.vblank_started
              /\ ~ppu.status_register.sprite_zero_hit
              /\ ~ppu.status_register.sprite_overflow
        /\ ppu.scanline = 0 => ~ppu.status_register.vblank_started
        /\ ppu.scanline <= LastScanline

\* nine sprites on scanline 241 were loaded on scanline 240: the step to
\* scanline 241 finds the ninth and then starts vblank
C24_Witness ==
    /\ h.op = "update"
    /\ ppu.scanline = VblankLine
    /\ ppu.line_progress = 0
    /\ ppu.oam = ArrOf(OamNineLate)
    /\ ppu.status_register.vblank_started
    /\ ~ppu.status_register.sprite_zero_hit
    /\ ~ppu.status_register.sprite_overflow

\* C25: after every update step that ends a line, the one from line 261 to
\* line 0 included, secondary_oam holds the sprites in range for the
\* scanline the PPU has after the step: every populated entry has that
\* scanline in [Y, Y + height), and the first up to 8 entries of the scan of
\* oam that are in range for it are present
C25_HoldsNewLine ==
    (h.op = "update" /\ ppu.line_progress = 0) =>
        LET s == ppu.scanline
            height == ppu.controller_register.sprite_size[2]
            first == ppu.oam_addr.addr
            n == Cardinality({k \in 0..(((256 - first) \div 4) - 1) :
                    /\ s >= ArrGet(ppu.oam, first + 4 * k)
                    /\ s < ArrGet(ppu.oam, first + 4 * k) + height})
            populated == {j \in 0..7 : ppu.secondary_oam[4 * j + 2] # \Hff}
        IN  /\ \A j \in populated :
                  /\ s >= ppu.secondary_oam[4 * j]
                  /\ s < ppu.secondary_oam[4 * j] + height
            /\ Cardinality(populated) = (IF n > 8 THEN 8 ELSE n)

\* the scanline value the sprite evaluation of the last end of line ran
\* with, seen from the state after the step: the incremented scanline, which
\* past 261 is reset to 0 only after the evaluation
EvaluatedScanline(p) == IF p.scanline = 0 THEN LastScanline + 1 ELSE p.scanline

\* the 4-byte tuples of oam after skip(oam_addr) that are in range for s
InRangeTuples(p, s) ==
    {k \in 0..(((256 - p.oam_addr.addr) \div 4) - 1) :
        /\ s >= OamByte(p, p.oam_addr.addr + 4 * k)
        /\ s < OamByte(p, p.oam_addr.addr + 4 * k) + p.controller_register.sprite_size[2]}

\* the tuple copied into slot j of secondary_oam: the one with j in-range
\* tuples before it
CopiedTuple(p, s, j) ==
    CHOOSE k \in InRangeTuples(p, s) :
        Cardinality({x \in InRangeTuples(p, s) : x < k}) = j

\* C26: after every sprite evaluation, attribute bit 2 of a copied entry is
\* set if and only if the entry is sprite 0 of primary OAM (bytes 0..3 of
\* oam), whatever oam_addr is when the evaluation runs; bits 7, 6, 5, 1, 0 of
\* the attribute are those of the OAM entry and bits 4 and 3 are clear
C26_MarkerIsSpriteZero ==
    (h.op = "update" /\ ppu.line_progress = 0) =>
        LET s == EvaluatedScanline(ppu)
            n == Cardinality(InRangeTuples(ppu, s))
        IN  \A j \in 0..7 :
                j < n =>
                    LET at == ppu.oam_addr.addr + 4 * CopiedTuple(ppu, s, j)
                        attr == ppu.secondary_oam[4 * j + 2]
                    IN  /\ Bit(attr, 2) <=> (at = 0)
                        /\ ~Bit(attr, 3)
                        /\ ~Bit(attr, 4)
                        /\ attr \div 32 = OamByte(ppu, at + 2) \div 32
                        /\ attr % 4 = OamByte(ppu, at + 2) % 4

\* C27: after every sprite evaluation, with s the scanline value the
\* evaluation ran with and k the smaller of 8 and the number of tuples of
\* the scan of oam in range for s, slots 0..k-1 of secondary_oam hold the
\* first k in-range tuples in scan order (Y, tile, the attribute with bits 4
\* and 3 cleared, X) and every byte of slots k..7 is 0xFF
C27_SecondaryOamLayout ==
    (h.op = "update" /\ ppu.line_progress = 0) =>
        LET s == EvaluatedScanline(ppu)
            n == Cardinality(InRangeTuples(ppu, s))
        IN  \A j \in 0..7 :
                IF j < n
                THEN LET at == ppu.oam_addr.addr + 4 * CopiedTuple(ppu, s, j)
                         attr == ppu.secondary_oam[4 * j + 2]
                     IN  /\ ppu.secondary_oam[4 * j] = OamByte(ppu, at)
                         /\ ppu.secondary_oam[4 * j + 1] = OamByte(ppu, at + 1)
                         /\ attr \div 32 = OamByte(ppu, at + 2) \div 32
                         /\ attr % 4 = OamByte(ppu, at + 2) % 4
                         /\ ~Bit(attr, 3) /\ ~Bit(attr, 4)
                         /\ ppu.secondary_oam[4 * j + 3] = OamByte(ppu, at + 3)
                ELSE \A i \in 0..3 : ppu.secondary_oam[4 * j + i] = \Hff

\* nine sprites on scanline 10, scanned from oam_addr = 4: eight of them
\* are copied, the first copied one being the second sprite of oam (X = 8)
C27_Witness ==
    /\ h.op = "update"
    /\ ppu.scanline = 10
    /\ ppu.line_progress = 0
    /\ ppu.oam = ArrOf(OamNine)
    /\ ppu.oam_addr.addr = 4
    /\ ppu.secondary_oam[3] = 8
    /\ ppu.secondary_oam[31] = 64

\* C28: after every update step that leaves the dot in 257..320, oam_addr
\* is 0, whatever the CPU wrote to OamAddress or OamData before the step
C28_OamAddrForcedZero ==
    (h.op = "update" /\ ppu.line_progress \in 257..320) => ppu.oam_addr.addr = 0

\* the CPU wrote 0x04 to OamAddress between dot 254 and dot 258 of line 10
C28_Witness ==
    /\ h.op = "update"
    /\ ppu.scanline = 10
    /\ ppu.line_progress = 258
    /\ budget.ops > 0
    /\ ppu.bus = \H04
    /\ ppu.oam_addr.addr = 0

\* C31: whenever an update step draws from an entry of secondary_oam on a
\* visible dot, the scanline is in [Y, Y + height) for the Y of the entry
\* and the sprite height of Controller, so that the row offset
\* scanline - Y does not underflow and is below the sprite height
C31_RowOffsetInSprite ==
    (h.op = "update" /\ ~Blanking(ppu)) =>
        \A i \in DrawnEntries(ppu) :
            /\ ppu.scanline >= SecondaryEntry(ppu, i)[1]
            /\ ppu.scanline - SecondaryEntry(ppu, i)[1]
                  < ppu.controller_register.sprite_size[2]

\* C32: the latch is changed only by a write to Scroll or Address and by a
\* read of Status; every other register read or write, OAM DMA and every
\* update step leaves it as it was
C32_LatchFrame ==
    [][ppu'.scroll_addr_latch # ppu.scroll_addr_latch
          => \/ h'.op = "write" /\ h'.register \in {"Scroll", "Address"}
             \/ h'.op = "read" /\ h'.register = "Status"]_vars

(***************************************************************************)
(* Claims checked under SpecRun.                                           *)
(***************************************************************************)
\* C1: in the pacing loop the order is drain inputs, cpu.tick, three PPU
\* updates: when the worker drains or is about to tick, the PPU has advanced
\* exactly 3 dots per successful tick; after the tick of an iteration it has
\* advanced the updates of that iteration and no more; and a run that ends
\* after n successful ticks has advanced 3n dots
C1_ThreeDotsPerTick ==
    LET dots == ppu.scanline * 341 + ppu.line_progress
    IN  /\ run.pc \in {"drain", "paused", "tick", "batch"} => dots = 3 * run.ticks
        /\ run.pc = "update" => (run.k < 3 /\ dots = 3 * (run.ticks - 1) + run.k)
        /\ run.result \in {"ok", "err"} => dots = 3 * run.ticks

\* a second batch, after the CPU has operated on the registers
C1_Witness ==
    /\ run.pc = "tick"
    /\ run.ticks > 1000
    /\ budget.ops > 0

NeighbourBank(a) == IF (a \div \H400) % 2 = 0 THEN a + \H400 ELSE a - \H400

OppositeBank(a) == IF a < \H2800 THEN a + \H800 ELSE a - \H800

C29_FrameOncePerFrame ==
    [][LET d == budget'.dots + budget'.steps
           copied == screen'.frames # screen.frames
       IN  /\ copied <=> /\ h'.op = "update"
                         /\ d >= VblankLine * DotsPerLine
                         /\ (d - VblankLine * DotsPerLine)
                               % ((LastScanline + 1) * DotsPerLine) = 0
           /\ copied => /\ screen'.frames = screen.frames + 1
                        /\ ppu'.scanline = VblankLine
                        /\ ppu'.line_progress = 0
                        /\ h'.frame
                        /\ ~screen'.pending
           /\ (~copied /\ screen.pending) => screen'.pending]_vars

\* the second copy, one frame after the first, the CPU having enabled the NMI
C29_Witness ==
    /\ h.op = "update"
    /\ screen.frames = 2
    /\ cpu.nmi = 2
    /\ budget.ops = 1
    /\ budget.dots + budget.steps = VblankLine * DotsPerLine + (LastScanline + 1) * DotsPerLine
    /\ ppu.scanline = VblankLine

(***************************************************************************)
(* Claims checked under SpecAddr.                                          *)
(***************************************************************************)
\* C30: in every reachable state, in every mirroring mode, no operation has
\* panicked and the PPU address is at most 0x3FFF; the address the Data
\* port hands to mirror_address lies in 0x2000-0x2FFF and is mapped to a
\* byte of vram, the palette index of the Data port is below 32, and the
\* nametable and attribute reads of the pixel just drawn did not fail
C30_AddressingNeverPanics ==
    LET a == ppu.addr.addr
        handed == IF a \in \H3000..\H3eff THEN a - \H1000 ELSE a
    IN  /\ ~ppu.panicked
        /\ a \in 0..\H3fff
        /\ a \in \H2000..\H3eff =>
              /\ handed \in \H2000..\H2fff
              /\ MirrorAddress(ppu.mirroring, handed) - \H2000 \in 0..4095
              /\ VramLoad(ppu, handed) # InvalidMirror
        /\ a \in \H3f00..\H3fff =>
              /\ PaletteWriteIndex(a) \in 0..31
              /\ PaletteReadIndex(a) \in 0..31
        /\ (h.op = "update" /\ ~Blanking(ppu)) =>
              ~DrawPixel(ppu, cpu.chr, ppu.line_progress, ppu.scanline,
                         ppu.scroll.x, ppu.scroll.y,
                         ppu.controller_register.nametable_address).panics

\* a Data read at 0x3FFF with increment 32 has folded the address to 0x001F
C30_Witness ==
    /\ ppu.mirroring = "SingleScreenUpper"
    /\ h.op = "read"
    /\ h.register = "Data"
    /\ budget.ops = 4
    /\ ppu.controller_register.vram_increment = 32
    /\ ppu.addr.addr = \H001f

(***************************************************************************)
(* Claims checked under SpecData.                                          *)
(***************************************************************************)
\* C5: starting with the latch true, after a Controller write that selects
\* the increment I (32 if bit 2 is set, else 1), an Address write of x in two
\* bytes, high then low, and N Data reads and writes in any mix, the address
\* register holds (x + N*I) mod 2^14
C5_AddressAfterDataOps ==
    (prog.name = "address" /\ prog.latch /\ prog.pc = 3)
        => ppu.addr.addr = (prog.a + prog.free * (IF Bit(prog.v, 2) THEN 32 ELSE 1)) % 16384

\* the address wraps from 0x3FE0 to 0x0020 in two steps of 32, one of them a
\* read and one a write
C5_Witness ==
    /\ prog.name = "address"
    /\ prog.latch
    /\ prog.a = \H3fe0
    /\ Bit(prog.v, 2)
    /\ prog.free = 2
    /\ ppu.addr.addr = \H0020
    /\ h.op = "read"
    /\ ppu.bus = 0

\* C7: a value written through Data at 0x3F10, 0x3F14, 0x3F18 or 0x3F1C is
\* returned by a Data read at 0x3F00, 0x3F04, 0x3F08 or 0x3F0C respectively,
\* and the other way round
C7_PairsShareStorage ==
    (/\ prog.name = "write_read"
     /\ prog.latch
     /\ prog.pc >= 6
     /\ {prog.a, prog.b} \in {{\H3f00 + k, \H3f10 + k} : k \in {0, 4, 8, 12}})
        => prog.reads[1] = prog.v

\* written at 0x3F0C, read at 0x3F1C
C7_Witness ==
    /\ prog.name = "write_read"
    /\ prog.latch
    /\ prog.pc >= 6
    /\ prog.a = \H3f0c
    /\ prog.b = \H3f1c
    /\ prog.reads[1] = \H2a

\* C8: for all addresses a and b in 0x3F00-0x3FFF with the same palette index
\* ((address - 0x3F00) mod 32, with 0x10/0x14/0x18/0x1C folded to
\* 0x00/0x04/0x08/0x0C), a value written through Data at a is returned by a
\* Data read at b
C8_PaletteIndex ==
    LET index(x) == IF ((x - \H3f00) % 32) \in {16, 20, 24, 28}
                    THEN ((x - \H3f00) % 32) - 16
                    ELSE (x - \H3f00) % 32
    IN  (/\ prog.name = "write_read"
         /\ prog.latch
         /\ prog.pc >= 6
         /\ prog.a \in \H3f00..\H3fff
         /\ prog.b \in \H3f00..\H3fff
         /\ index(prog.a) = index(prog.b))
            => prog.reads[1] = prog.v

\* C9: a Data read at an address in 0x0000-0x3EFF returns the data_buffer and
\* refills it with the byte the address maps to; the data_buffer changes in
\* no other step, so what the read returns is what the previous buffered read
\* left (under horizontal mirroring the byte of tile A for the first two
\* windows and of tile B for the last two); a Data read at a palette address
\* returns at once the byte last written at that address; after writing v at 0x2000 and setting Address to
\* 0x2000 again, the second of two Data reads returns v
C9_BufferedReads ==
    /\ [][LET a == ppu.addr.addr
              buffered == h'.op = "read" /\ h'.register = "Data" /\ a \in 0..\H3eff
          IN  /\ buffered =>
                    /\ h'.value = ppu.data_buffer
                    /\ ppu'.data_buffer =
                          IF a < \H2000 THEN PpuReadChrRom(cpu.chr, a)
                          ELSE ArrGet(ppu.vram, (a % \H400) + (IF (a % \H1000) < \H800 THEN 0 ELSE \H400))
              /\ ~buffered => ppu'.data_buffer = ppu.data_buffer]_vars
    /\ [](/\ (/\ prog.name = "write_read" /\ prog.latch /\ prog.pc >= 6
              /\ prog.a = prog.b /\ prog.a \in \H3f00..\H3fff)
                 => prog.reads[1] = prog.v
          /\ (/\ prog.name = "write_read" /\ prog.latch /\ prog.pc = 7
              /\ prog.a = \H2000 /\ prog.b = \H2000)
                 => prog.reads[2] = prog.v)

\* the program of S2 has run after a Data read at a pattern address filled
\* the data_buffer: its first read returns that byte, its second v
C9_Witness ==
    /\ prog.name = "write_read"
    /\ prog.latch
    /\ prog.pc = 7
    /\ prog.a = \H2000
    /\ prog.b = \H2000
    /\ prog.reads = << \Haa, \H11 >>

\* C10 as stated: in S1 (increment 1, latch true: write 0x2A at 0x3F10, set
\* Address to 0x3F00, read Data twice) the second read returns 0x2A
C10_SecondReadReturnsValue ==
    (/\ prog.name = "write_read"
     /\ prog.latch
     /\ ppu.controller_register.vram_increment = 1
     /\ prog.pc = 7
     /\ prog.a = \H3f10
     /\ prog.b = \H3f00
     /\ prog.v = \H2a)
        => prog.reads[2] = \H2a

\* C10: in S1 the first of the two Data reads returns 0x2A (a palette read is
\* not buffered); the second returns the palette byte at 0x3F01
C10_FirstReadReturnsValue ==
    (/\ prog.name = "write_read"
     /\ prog.latch
     /\ ppu.controller_register.vram_increment = 1
     /\ prog.pc = 7
     /\ prog.a = \H3f10
     /\ prog.b = \H3f00
     /\ prog.v = \H2a)
        => (prog.reads[1] = \H2a /\ prog.reads[2] = ppu.palette_table[1])

\* S1 has run from the state after construction
C10_Witness ==
    /\ prog.name = "write_read"
    /\ prog.latch
    /\ ppu.controller_register.vram_increment = 1
    /\ prog.pc = 7
    /\ prog.a = \H3f10
    /\ prog.b = \H3f00
    /\ prog.reads = << \H2a, 0 >>
    /\ budget.ops = 7

\* C21: a read of OamData returns oam[oam_addr] and leaves oam_addr as it
\* was: after OamAddress := a, an OamData write of v and OamAddress := a, an
\* OamData read returns v
C21_OamDataRead ==
    (prog.name = "oam_read" /\ prog.pc = 4)
        => /\ prog.reads = << prog.v >>
           /\ prog.reads = << ArrGet(ppu.oam, ppu.oam_addr.addr) >>
           /\ ppu.oam_addr.addr = prog.a

\* C22: a Data write while the address is in 0x0000-0x1FFF hands the
\* address and the value to the caller's ppu_memory_write, and the address
\* then advances by the increment of Controller, folded into 14 bits
C22_ChrWriteForwarded ==
    [][(h'.op = "write" /\ h'.register = "Data" /\ ppu.addr.addr \in 0..\H1fff)
          => /\ cpu'.memory_writes
                   = Append(cpu.memory_writes, << ppu.addr.addr, h'.value >>)
             /\ ppu'.addr.addr
                   = (ppu.addr.addr + ppu.controller_register.vram_increment) % 16384]_vars

(***************************************************************************)
(* Further claims checked under SpecRun.                                   *)
(***************************************************************************)
\* C14: when cpu.tick returns an error the pacing loop ends with that error,
\* and from then on the worker performs no PPU update, receives no message
\* and calls cpu.tick no more
C14_TickErrorEndsLoop ==
    [][/\ h'.op = "tick_err" => (run'.pc = "done" /\ run'.result = "err" /\ ppu' = ppu)
       /\ run.result = "err" =>
            /\ run'.pc = "done"
            /\ run'.result = "err"
            /\ h'.op \notin {"update", "recv", "drained", "tick", "tick_err", "batch",
                             "read", "write", "dma"}
            /\ <<ppu', cpu', screen'>> = <<ppu, cpu, screen>>
            /\ <<run'.ticks, run'.chan, run'.cycles>> = <<run.ticks, run.chan, run.cycles>>]_vars

\* the fourth tick failed, with a message waiting in the channel, and the
\* main thread went on
C14_Witness ==
    /\ run.result = "err"
    /\ run.ticks = 3
    /\ run.chan # << >>
    /\ h.op = "exit"

\* C15: when run_cpu_headless_for returns Ok, cpu.tick has been called
\* exactly cycle_limit times
C15_StopsAtCycleLimit ==
    (run.limited /\ run.result = "ok") => run.ticks = run.max_cycles

\* C16: while the pacing loop is paused after a Pause(true) it runs no
\* cpu.tick and no PPU step, and it leaves the pause only by receiving
\* Pause(false): a Button or another Pause(true) does not resume it
C16_PausedUntilPauseFalse ==
    [][run.pc = "paused" =>
         /\ ppu' = ppu
         /\ run'.ticks = run.ticks
         /\ run'.pc \notin {"paused", "done"}
               => (run.chan # << >> /\ Head(run.chan) = Pause(FALSE))]_vars

\* C17: once the worker has finished, every event the main thread handles
\* makes the event loop exit: it neither panics nor keeps running
C17_ExitsWhenWorkerFinished ==
    [][(run.pc = "done" /\ run.main = "running" /\ h'.op \in {"event", "exit"})
          => run'.main = "exited"]_vars

\* C18: when the worker polls its channel after the sender was dropped and
\* the channel is empty, it terminates fatally, paused or not, and goes on to
\* no further cpu.tick
C18_DisconnectIsFatal ==
    [][(/\ run.writer = "Real"
        /\ run.pc \in {"drain", "paused"}
        /\ ~run.tx_alive
        /\ run.chan = << >>)
          => (run'.pc = "done" /\ run'.result = "panic")]_vars

====
